---- MODULE Spec2Model ----
(***************************************************************************)
(* A model of the Dynamixel protocol v2 controller (src/protocol/v2.rs):   *)
(* the packet codec as operators over sequences of bytes, and the          *)
(* send / receive engine as a state machine whose steps are one tx.write,  *)
(* one iteration of busy_wait! and one tick of the clock.                  *)
(***************************************************************************)
EXTENDS Integers, Sequences, FiniteSets, TLC

VARIABLES
    pc,       \* "idle" | "send" | "recv" | "done" | "panic"
    op,       \* the operation in flight and its arguments
    timeout,  \* ControllerV2.timeout (ms)
    now,      \* the value clock.now() returns (ms)
    t0,       \* busy_wait!'s t0 of the byte being waited for
    txq,      \* bytes of the instruction frame not yet written to tx
    tx,       \* every byte written to tx, in order
    script,   \* the bytes the bus delivers to rx, in order
    rxpos,    \* how many bytes of script rx.read() has yielded so far
    bytes,    \* recv's buffer
    idx,      \* completed iterations of the loop of sync_read_data / scan
    answer,   \* the Vec built by sync_read_data / scan
    rres,     \* outcome of the latest recv()
    result,   \* what the operation returned
    hist,     \* history: one record per finished recv() of the operation
    late,     \* history: the latest recv() took a byte after its deadline
    calls     \* history: rxpos at the call of each operation so far

vars == <<pc, op, timeout, now, t0, txq, tx, script, rxpos, bytes, idx,
          answer, rres, result, hist, late, calls>>

-----------------------------------------------------------------------------
(* Bounds of the model.                                                    *)

\* The clock stops at MaxTime in Spec and at MaxSlowTime in SpecSlow.
MaxTime == 4
MaxSlowTime == 10
\* The servos on the bus have the ids 1 .. MaxId.
MaxId == 3
\* The caller makes at most MaxCalls operations on a controller in SpecSeq.
MaxCalls == 2
\* The status packets of SpecCodec carry up to MaxParams parameters (and one
\* carries 255).
MaxParams == 3

-----------------------------------------------------------------------------
(* Program constants.                                                      *)

TIMEOUT == 1
BROADCAST_ID == 254
HeaderLength == 7
InstrPing == 1
InstrReadData == 2
InstrWriteData == 3
InstrSyncRead == 130
InstrSyncWrite == 131
StatusMarker == 85

HEADER == <<255, 255, 253, 0>>

-----------------------------------------------------------------------------
(* u8 / u16 arithmetic.                                                    *)

\* x as u8
U8(x) == x % 256

\* x as u16
U16(x) == x % 65536

\* pack!(l, h): u16::from(h) << 8 | u16::from(l)
pack(l, h) == (h * 256) + l

\* unpack!(b): (b as u8, (b >> 8) as u8)
unpack(b) == <<b % 256, (b \div 256) % 256>>

RECURSIVE BitXor(_, _, _)
\* a ^ b over n bits
BitXor(a, b, n) ==
    IF n = 0 THEN 0
    ELSE ((a + b) % 2) + 2 * BitXor(a \div 2, b \div 2, n - 1)

\* One bit of CRC-16/BUYPASS: shift left, xor the polynomial 0x8005 when the
\* bit shifted out is set.
CrcShift(c) ==
    IF c >= 32768 THEN BitXor((c * 2) % 65536, 32773, 16)
    ELSE (c * 2) % 65536

\* The table of the CRC: eight shifts of each high byte.
CrcTable ==
    [i \in 0 .. 255 |->
        CrcShift(CrcShift(CrcShift(CrcShift(
        CrcShift(CrcShift(CrcShift(CrcShift(i * 256))))))))]

\* The CRC state after one more byte: (c << 8) ^ table[(c >> 8) ^ b].
CrcByte(c, b) ==
    BitXor((c % 256) * 256, CrcTable[BitXor(c \div 256, b, 8)], 16)

\* The CRC state c after the bytes i, i + 1, ... of bs (four bytes to a
\* step while four are left, which keeps the evaluation shallow).
CrcUpdate[c \in Nat, bs \in Seq(0 .. 255), i \in Nat] ==
    IF i > Len(bs) THEN c
    ELSE IF i + 3 <= Len(bs)
         THEN CrcUpdate[CrcByte(CrcByte(CrcByte(CrcByte(c, bs[i]), bs[i + 1]),
                                        bs[i + 2]), bs[i + 3]), bs, i + 4]
    ELSE CrcUpdate[CrcByte(c, bs[i]), bs, i + 1]

\* crc(bytes): crc16::State::<crc16::BUYPASS>::calculate(bytes)
crc(bs) == CrcUpdate[0, bs, 1]

-----------------------------------------------------------------------------
(* Results (Result<T, DynamixelError>, src/error.rs) and aborts.           *)

Ok(v) == [tag |-> "Ok", val |-> v, error |-> "", code |-> 0]
Err(e, c) == [tag |-> "Err", val |-> 0, error |-> e, code |-> c]
Aborted == [tag |-> "Panic", val |-> 0, error |-> "", code |-> 0]
More == [tag |-> "More", val |-> 0, error |-> "", code |-> 0]
NoResult == [tag |-> "None", val |-> 0, error |-> "", code |-> 0]

parsing_error == Err("Parsing", 0)
unsupported_register == Err("UnsupportedRegister", 0)
status_error_code(e) == Err("StatusError", e)
invalid_checksum == Err("InvalidChecksum", 0)
timeout_error == Err("Timeout", 0)

\* Option<u8>
None == <<>>
Some(e) == <<e>>
unwrap_or(o, d) == IF o = None THEN d ELSE o[1]

-----------------------------------------------------------------------------
(* Register data coding (src/motors/mod.rs). Aborted is the panic!() of    *)
(* the macros.                                                             *)

\* dxl_code_data!(len, data)
dxl_code_data(len, data) ==
    CASE len = 1 -> Ok(<<U8(data)>>)
      [] len = 2 -> Ok(unpack(data))
      [] OTHER -> Aborted

\* dxl_decode_data! packing its two bytes high byte first
dxl_decode_data_be(len, data) ==
    CASE len = 1 -> IF Len(data) >= 1 THEN Ok(data[1]) ELSE Aborted
      [] len = 2 -> IF Len(data) >= 2 THEN Ok(pack(data[2], data[1]))
                    ELSE Aborted
      [] OTHER -> Aborted

\* dxl_decode_data!(len, data); indexing past the end of data panics too
dxl_decode_data(len, data) ==
    CASE len = 1 -> IF Len(data) >= 1 THEN Ok(data[1]) ELSE Aborted
      [] len = 2 -> IF Len(data) >= 2 THEN Ok(pack(data[1], data[2]))
                    ELSE Aborted
      [] OTHER -> Aborted

-----------------------------------------------------------------------------
(* Instruction packets.                                                    *)

\* InstructionPacket::new
InstructionPacket_new(id, instruction, parameters) ==
    [id |-> id, length |-> U16(Len(parameters) + 3),
     instruction |-> instruction, parameters |-> parameters]

\* InstructionPacket::ping
InstructionPacket_ping(id) == InstructionPacket_new(id, InstrPing, <<>>)

\* InstructionPacket::read_data
InstructionPacket_read_data(id, addr, len) ==
    InstructionPacket_new(id, InstrReadData, unpack(addr) \o unpack(len))

\* InstructionPacket::sync_read_data
InstructionPacket_sync_read_data(ids, addr, len) ==
    InstructionPacket_new(BROADCAST_ID, InstrSyncRead,
                          unpack(addr) \o unpack(len) \o ids)

\* InstructionPacket::write_data; Aborted when dxl_code_data! panics
InstructionPacket_write_data(id, addr, len, data) ==
    LET coded == dxl_code_data(len, data) IN
    IF coded.tag # "Ok" THEN Aborted
    ELSE Ok(InstructionPacket_new(id, InstrWriteData,
                                  unpack(addr) \o coded.val))

RECURSIVE CodedData(_, _, _)
\* the fold of sync_write_data over data[i..]
CodedData(len, data, i) ==
    IF i > Len(data) THEN Ok(<<>>)
    ELSE LET coded == dxl_code_data(len, data[i][2])
             rest == CodedData(len, data, i + 1)
         IN  IF coded.tag # "Ok" \/ rest.tag # "Ok" THEN Aborted
             ELSE Ok(<<data[i][1]>> \o coded.val \o rest.val)

\* InstructionPacket::sync_write_data
InstructionPacket_sync_write_data(addr, len, data) ==
    LET coded == CodedData(len, data, 1) IN
    IF coded.tag # "Ok" THEN Aborted
    ELSE Ok(InstructionPacket_new(BROADCAST_ID, InstrSyncWrite,
                                  unpack(addr) \o coded.val))

\* InstructionPacket::as_bytes
as_bytes(p) ==
    LET buff == HEADER \o <<p.id>> \o unpack(p.length) \o <<p.instruction>>
                  \o p.parameters
    IN  buff \o unpack(crc(buff))

-----------------------------------------------------------------------------
(* Status packets.                                                         *)

\* PacketHeader::from_bytes (bytes has HeaderLength elements)
PacketHeader_from_bytes(bs) ==
    IF SubSeq(bs, 1, 4) # HEADER THEN parsing_error
    ELSE Ok([id |-> bs[5], length |-> pack(bs[6], bs[7])])

\* StatusPacket::from_bytes taking the error byte one index too early
StatusPacket_from_bytes_marker(bs) ==
    LET end == Len(bs) IN
    IF end < 2 THEN Aborted
    ELSE IF crc(SubSeq(bs, 1, end - 2)) # pack(bs[end - 1], bs[end])
         THEN invalid_checksum
    ELSE IF end < 11 THEN Aborted
    ELSE Ok([id |-> bs[5],
             length |-> pack(bs[6], bs[7]),
             error_code |-> IF bs[8] = 0 THEN None ELSE Some(bs[8]),
             parameters |-> SubSeq(bs, 10, end - 2)])

\* StatusPacket::from_bytes. The slices and indexes of the code panic when
\* they reach past the end of bytes.
StatusPacket_from_bytes(bs) ==
    LET end == Len(bs) IN
    IF end < 2 THEN Aborted
    ELSE IF crc(SubSeq(bs, 1, end - 2)) # pack(bs[end - 1], bs[end])
         THEN invalid_checksum
    ELSE IF end < 11 THEN Aborted
    ELSE Ok([id |-> bs[5],
             length |-> pack(bs[6], bs[7]),
             error_code |-> IF bs[9] = 0 THEN None ELSE Some(bs[9]),
             parameters |-> SubSeq(bs, 10, end - 2)])

\* StatusPacket::to_bytes writing the length high byte first
to_bytes_be(sp) ==
    LET bs == HEADER \o <<sp.id>> \o <<unpack(sp.length)[2], unpack(sp.length)[1]>>
                \o <<StatusMarker, unwrap_or(sp.error_code, 0)>>
                \o sp.parameters
    IN  bs \o unpack(crc(bs))

\* StatusPacket::to_bytes
to_bytes(sp) ==
    LET bs == HEADER \o <<sp.id>> \o unpack(sp.length)
                \o <<StatusMarker, unwrap_or(sp.error_code, 0)>>
                \o sp.parameters
    IN  bs \o unpack(crc(bs))

\* recv reading one byte more than the header declares
recv_step_extra(bs) ==
    IF Len(bs) < HeaderLength THEN More
    ELSE LET header == PacketHeader_from_bytes(SubSeq(bs, 1, HeaderLength)) IN
         IF header.tag = "Err" THEN header
         ELSE IF Len(bs) < HeaderLength + header.val.length + 1 THEN More
         ELSE LET p == StatusPacket_from_bytes(
                           SubSeq(bs, 1, HeaderLength + header.val.length)) IN
              IF p.tag # "Ok" THEN p
              ELSE IF p.val.error_code # None
                   THEN status_error_code(p.val.error_code[1])
              ELSE p

\* recv after its buffer has grown to bs: More while a busy_wait! is still
\* due, else what recv returns.
recv_step(bs) ==
    IF Len(bs) < HeaderLength THEN More
    ELSE LET header == PacketHeader_from_bytes(SubSeq(bs, 1, HeaderLength)) IN
         IF header.tag = "Err" THEN header
         ELSE IF Len(bs) < HeaderLength + header.val.length THEN More
         ELSE LET p == StatusPacket_from_bytes(bs) IN
              IF p.tag # "Ok" THEN p
              ELSE IF p.val.error_code # None
                   THEN status_error_code(p.val.error_code[1])
              ELSE p

-----------------------------------------------------------------------------
(* What each operation does with the outcome r of a recv().                *)

\* InstructionPacket::ping(id).as_bytes(), for every id
PingFrame == [id \in 0 .. 255 |-> as_bytes(InstructionPacket_ping(id))]

\* ping mapping every error of recv to Ok(false)
ping_result_swallow(r) ==
    IF r.tag = "Ok" THEN Ok(TRUE)
    ELSE IF r.tag = "Err" THEN Ok(FALSE)
    ELSE r

\* ping, lines 41-50
ping_result(r) ==
    IF r.tag = "Ok" THEN Ok(TRUE)
    ELSE IF r.tag = "Err" /\ r.error = "Timeout" THEN Ok(FALSE)
    ELSE r

\* read_data, lines 74-80
read_data_result(r, len) ==
    IF r.tag # "Ok" THEN r
    ELSE IF Len(r.val.parameters) # len THEN parsing_error
    ELSE dxl_decode_data(len, r.val.parameters)

\* write_data, lines 112-114
write_data_result(r) == IF r.tag # "Ok" THEN r ELSE Ok(<<>>)

\* sync_read_data unwrapping the result of recv
sync_read_push_unwrap(ans, id, len, r) ==
    IF r.tag # "Ok" THEN Aborted
    ELSE LET v == dxl_decode_data(len, r.val.parameters) IN
         IF v.tag # "Ok" THEN Aborted ELSE Ok(Append(ans, <<id, v.val>>))

\* sync_read_data pushing a zero for a reply that was not received
sync_read_push_always(ans, id, len, r) ==
    IF r.tag = "Panic" THEN Aborted
    ELSE IF r.tag = "Err" THEN Ok(Append(ans, <<id, 0>>))
    ELSE LET v == dxl_decode_data(len, r.val.parameters) IN
         IF v.tag # "Ok" THEN Aborted ELSE Ok(Append(ans, <<id, v.val>>))

\* One iteration of the loop of sync_read_data: the new answer, or Aborted
\* when recv or dxl_decode_data! panics.
sync_read_push(ans, id, len, r) ==
    IF r.tag = "Panic" THEN Aborted
    ELSE IF r.tag = "Err" THEN Ok(ans)
    ELSE LET v == dxl_decode_data(len, r.val.parameters) IN
         IF v.tag # "Ok" THEN Aborted ELSE Ok(Append(ans, <<id, v.val>>))

\* scan taking a failed ping for an absent servo
scan_push_lenient(v, id, x) ==
    IF x.tag = "Panic" THEN x
    ELSE IF x.tag = "Ok" /\ x.val THEN Ok(Append(v, id)) ELSE Ok(v)

\* One iteration of the loop of scan on the result x of ping: the new v, or
\* the error that `?` returns.
scan_push(v, id, x) ==
    IF x.tag # "Ok" THEN x
    ELSE IF x.val THEN Ok(Append(v, id)) ELSE Ok(v)

\* every operation waiting for a status packet
calls_recv_always(o) == TRUE

\* Whether an operation calls recv once send has returned.
calls_recv(o) ==
    CASE o.kind = "sync_write_data" -> FALSE
      [] o.kind = "sync_read_data" -> Len(o.ids) > 0
      [] OTHER -> TRUE

\* one deadline for the whole packet
busy_wait_t0_shared(n, t) == t

\* busy_wait!: t0 of the wait that starts at clock value n (the wait before
\* it had t0 = t)
busy_wait_t0(n, t) == n

\* the deadline test with >= for >
busy_wait_expired_early(n, t, to) == (n - t) >= to

\* busy_wait!: the test made after rx.read() was not ready
busy_wait_expired(n, t, to) == (n - t) > to

Ctl(p, res, i, ans, q) ==
    [pc |-> p, result |-> res, idx |-> i, answer |-> ans, txq |-> q]

\* an operation answering the error of its first recv by sending again
\* what it has sent
Finished_retry(res, i, ans) ==
    IF res.tag = "Err" /\ i = 1 THEN Ctl("send", NoResult, i, ans, tx)
    ELSE Ctl(IF res.tag = "Panic" THEN "panic" ELSE "done", res, i, ans, <<>>)

\* The operation returns res (or aborts).
Finished(res, i, ans) ==
    Ctl(IF res.tag = "Panic" THEN "panic" ELSE "done", res, i, ans, <<>>)

\* Where the operation o goes when its recv number i + 1 returns r.
after_recv(o, r, i, ans) ==
    CASE o.kind = "ping" -> Finished(ping_result(r), i + 1, ans)
      [] o.kind = "read_data" ->
            Finished(read_data_result(r, o.width), i + 1, ans)
      [] o.kind = "write_data" -> Finished(write_data_result(r), i + 1, ans)
      [] o.kind = "sync_read_data" ->
            LET x == sync_read_push(ans, o.ids[i + 1], o.width, r) IN
            IF x.tag # "Ok" THEN Finished(x, i + 1, ans)
            ELSE IF i + 1 = Len(o.ids) THEN Finished(x, i + 1, x.val)
            ELSE Ctl("recv", NoResult, i + 1, x.val, <<>>)
      [] o.kind = "scan" ->
            LET x == scan_push(ans, o.ids[i + 1], ping_result(r)) IN
            IF x.tag # "Ok" THEN Finished(x, i + 1, ans)
            ELSE IF i + 1 = Len(o.ids) THEN Finished(x, i + 1, x.val)
            ELSE Ctl("send", NoResult, i + 1, x.val, PingFrame[o.ids[i + 2]])

-----------------------------------------------------------------------------
(* Inputs.                                                                 *)

Ids == 1 .. MaxId

\* Registers: ID and PresentPosition of the XL_320, and a register of a
\* width the macros do not support.
Regs == { [addr |-> 3, width |-> 1], [addr |-> 37, width |-> 2],
          [addr |-> 48, width |-> 3] }

\* Two registers of the XL_320.
PresentPosition == [addr |-> 37, width |-> 2]
GoalPosition == [addr |-> 30, width |-> 2]

Datas == { 612 }

AllIds == [i \in 1 .. MaxId |-> i]
IdLists == { <<>>, <<2>>, AllIds }
PairLists == { <<>>, << <<1, 612>>, <<2, 5>> >> }
Ranges == { <<1, 1>>, <<1, MaxId + 1>>, <<MaxId, MaxId + 1>> }

\* id_range as the list of the ids it yields
RangeIds(lo, hi) == [i \in 1 .. (IF hi > lo THEN hi - lo ELSE 0) |-> lo + i - 1]

MkOp(kind, id, reg, data, ids, pairs) ==
    [kind |-> kind, id |-> id, addr |-> reg.addr, width |-> reg.width,
     data |-> data, ids |-> ids, pairs |-> pairs]

NoReg == [addr |-> 0, width |-> 0]
NoOp == MkOp("none", 0, NoReg, 0, <<>>, <<>>)

\* The value servo i holds in the register that is read.
ServoValue(i) == 611 + i

\* The n parameter bytes servo i answers with.
ServoData(i, n) ==
    CASE n = 0 -> <<>>
      [] n = 1 -> <<U8(ServoValue(i))>>
      [] n = 2 -> unpack(ServoValue(i))
      [] OTHER -> unpack(ServoValue(i)) \o [k \in 1 .. n - 2 |-> 0]

\* The status frame of servo id with error byte e and parameters ps.
Reply(id, e, ps) ==
    to_bytes([id |-> id, length |-> U16(Len(ps) + 4),
              error_code |-> IF e = 0 THEN None ELSE Some(e),
              parameters |-> ps])

\* A frame with its last CRC byte changed / with a wrong first byte.
BadCrc(f) == [f EXCEPT ![Len(f)] = U8(f[Len(f)] + 1)]
BadMagic(f) == [f EXCEPT ![1] = 254]

RECURSIVE Replies(_, _)
\* The replies of the servos of S, in ascending id order, back to back.
Replies(S, i) ==
    IF i > MaxId THEN <<>>
    ELSE (IF i \in S THEN Reply(i, 0, ServoData(i, 2)) ELSE <<>>)
            \o Replies(S, i + 1)

\* Non-zero error bytes of a status frame.
ErrBytes == { 4, 128 }

\* What the bus may deliver: nothing; one reply of servo 1 with 0 to 3
\* parameters, with an error byte, with a wrong CRC or a wrong magic; the
\* replies of all the servos or of all but one; three replies of which the
\* second carries an error byte.
Scripts ==
    { Reply(1, 0, ServoData(1, n)) : n \in 0 .. 3 }
    \cup { Reply(1, e, ServoData(1, 2)) : e \in ErrBytes }
    \cup { BadCrc(Reply(1, 0, ServoData(1, 2))),
           BadMagic(Reply(1, 0, ServoData(1, 2))) }
    \cup { <<>>, Replies(Ids, 1) }
    \cup { Replies(Ids \ {i}, 1) : i \in Ids }
    \cup { Reply(1, 0, ServoData(1, 2)) \o Reply(2, 4, ServoData(2, 2))
             \o Replies({MaxId}, 1) }

\* One well-formed reply, for the runs with slow bytes.
SlowScripts == { Reply(1, 0, ServoData(1, 2)) }

\* The bytes on the bus of a frame with the given id and declared length
\* whose bytes 7.. are body, followed by the CRC of all of them.
Frame(id, len, body) ==
    LET bs == HEADER \o <<id>> \o unpack(len) \o body
    IN  bs \o unpack(crc(bs))

\* A frame of servo 1 that declares the length len < 4 and carries a valid
\* CRC: 7 + len bytes in all for len >= 2.
ShortFrame(len) ==
    Frame(1, len, IF len = 3 THEN <<StatusMarker>> ELSE <<>>)

\* A reply of servo 1, valid but for its marker byte, which is 0x54.
BadMarker == Frame(1, 6, <<84, 0>> \o ServoData(1, 2))

\* What the bus may deliver to a sequence of operations: nothing; a
\* reply; a frame with a wrong magic followed by a reply; frames that
\* declare a length of 0, 2 or 3, with a valid or a wrong CRC; a frame with
\* a wrong marker.
SeqScripts ==
    { <<>>,
      Reply(1, 0, ServoData(1, 2)),
      BadMagic(Reply(1, 0, ServoData(1, 2))) \o Reply(1, 0, ServoData(1, 2)),
      HEADER \o <<1, 0, 0>>,
      ShortFrame(2), ShortFrame(3), BadCrc(ShortFrame(3)),
      BadMarker }

RECURSIVE Params(_)
\* The parameter sequences of length n over three byte values.
Params(n) ==
    IF n = 0 THEN { <<>> }
    ELSE { Append(ps, b) : ps \in Params(n - 1), b \in {0, 23, 255} }

\* random_error: a value of 0 .. 7, 0 standing for no error.
random_error == { IF e = 0 THEN None ELSE Some(e) : e \in 0 .. 7 }

\* random_status_packet: a drawn id, drawn parameters, the length that goes
\* with the parameters and a drawn error.
random_status_packet ==
    { [id |-> id, length |-> U16(Len(ps) + 4),
       error_code |-> e, parameters |-> ps] :
        id \in {0, 1, 42, 254, 255},
        e \in random_error,
        ps \in UNION { Params(n) : n \in 0 .. MaxParams }
                 \cup { [k \in 1 .. 255 |-> k] } }

\* Values of the struct StatusPacket that to_bytes is applied to directly:
\* an id, an error_code over the whole range of u8 and parameters, with the
\* length that goes with the parameters.
StatusPackets ==
    { [id |-> id, length |-> U16(Len(ps) + 4),
       error_code |-> IF e = 0 THEN None ELSE Some(e), parameters |-> ps] :
        id \in {0, 1, 42, 254, 255},
        e \in {0, 1, 7, 128, 255},
        ps \in UNION { Params(n) : n \in 0 .. MaxParams }
                 \cup { [k \in 1 .. 255 |-> k] } }

\* What the bus may deliver where termination is at stake: nothing; a
\* reply; a reply with one parameter; a header that declares the length
\* 65535 followed by four bytes and silence.
LiveScripts ==
    { <<>>,
      Reply(1, 0, ServoData(1, 2)),
      Reply(1, 0, ServoData(1, 1)),
      HEADER \o <<1, 255, 255, StatusMarker, 0, 100, 2>> }

-----------------------------------------------------------------------------
(* The state machine.                                                      *)

InitWith(scripts) ==
    /\ pc = "idle"
    /\ op = NoOp
    /\ timeout = TIMEOUT
    /\ now = 0
    /\ t0 = 0
    /\ txq = <<>>
    /\ tx = <<>>
    /\ script \in scripts
    /\ rxpos = 0
    /\ bytes = <<>>
    /\ idx = 0
    /\ answer = <<>>
    /\ rres = NoResult
    /\ result = NoResult
    /\ hist = <<>>
    /\ late = FALSE
    /\ calls = <<>>

Init == InitWith(Scripts)

InitSlow == InitWith(SlowScripts)

InitSeq == InitWith(SeqScripts)

InitLive == InitWith(LiveScripts)

\* An operation is called: its instruction packet is built (pkt) and send
\* begins, unless building the packet panicked.
Begin(o, pkt) ==
    /\ op' = o
    /\ calls' = Append(calls, rxpos)
    /\ IF pkt.tag = "Ok"
       THEN pc' = "send" /\ txq' = as_bytes(pkt.val) /\ result' = NoResult
       ELSE pc' = "panic" /\ txq' = <<>> /\ result' = Aborted
    /\ UNCHANGED <<timeout, now, t0, tx, script, rxpos, bytes, idx, answer,
                   rres, hist, late>>

Ping(id) ==
    /\ pc = "idle"
    /\ Begin(MkOp("ping", id, NoReg, 0, <<>>, <<>>),
             Ok(InstructionPacket_ping(id)))

\* scan returns at once on an empty range, else sends its first ping.
Scan(lo, hi) ==
    /\ pc = "idle"
    /\ LET o == MkOp("scan", 0, NoReg, 0, RangeIds(lo, hi), <<>>) IN
       IF o.ids = <<>>
       THEN /\ op' = o
            /\ calls' = Append(calls, rxpos)
            /\ pc' = "done"
            /\ result' = Ok(<<>>)
            /\ UNCHANGED <<timeout, now, t0, txq, tx, script, rxpos, bytes,
                           idx, answer, rres, hist, late>>
       ELSE Begin(o, Ok(InstructionPacket_ping(o.ids[1])))

ReadData(id, reg) ==
    /\ pc = "idle"
    /\ Begin(MkOp("read_data", id, reg, 0, <<>>, <<>>),
             Ok(InstructionPacket_read_data(id, reg.addr, reg.width)))

SyncReadData(ids, reg) ==
    /\ pc = "idle"
    /\ Begin(MkOp("sync_read_data", 0, reg, 0, ids, <<>>),
             Ok(InstructionPacket_sync_read_data(ids, reg.addr, reg.width)))

WriteData(id, reg, data) ==
    /\ pc = "idle"
    /\ Begin(MkOp("write_data", id, reg, data, <<>>, <<>>),
             InstructionPacket_write_data(id, reg.addr, reg.width, data))

SyncWriteData(reg, pairs) ==
    /\ pc = "idle"
    /\ Begin(MkOp("sync_write_data", 0, reg, 0, <<>>, pairs),
             InstructionPacket_sync_write_data(reg.addr, reg.width, pairs))

\* send handing over to recv after the first byte of the frame
TxWrite_interleaved ==
    /\ pc = "send"
    /\ tx' = Append(tx, Head(txq))
    /\ txq' = Tail(txq)
    /\ pc' = "recv"
    /\ t0' = now
    /\ late' = FALSE
    /\ UNCHANGED <<op, timeout, now, script, rxpos, bytes, idx, answer, rres,
                   result, hist, calls>>

\* send: tx.write accepts the next byte of the frame (a write that would
\* block leaves the state as it is). After the last byte send returns and
\* the operation enters recv, or returns when it expects no reply.
TxWrite ==
    /\ pc = "send"
    /\ tx' = Append(tx, Head(txq))
    /\ txq' = Tail(txq)
    /\ IF Len(txq) > 1 THEN UNCHANGED <<pc, t0, result, late>>
       ELSE IF calls_recv(op)
            THEN /\ pc' = "recv"
                 /\ t0' = now
                 /\ late' = FALSE
                 /\ UNCHANGED result
            ELSE /\ pc' = "done"
                 /\ result' = Ok(<<>>)
                 /\ UNCHANGED <<t0, late>>
    /\ UNCHANGED <<op, timeout, now, script, rxpos, bytes, idx, answer, rres,
                   hist, calls>>

\* recv returns r, having consumed n bytes of rx, the last of them after
\* its deadline when l.
RecvReturns(r, n, l) ==
    LET c == after_recv(op, r, idx, answer) IN
    /\ rres' = r
    /\ hist' = Append(hist, [tag |-> r.tag, error |-> r.error,
                             code |-> r.code, n |-> n])
    /\ pc' = c.pc
    /\ result' = c.result
    /\ idx' = c.idx
    /\ answer' = c.answer
    /\ txq' = c.txq
    /\ bytes' = <<>>
    /\ t0' = IF c.pc = "recv" THEN now ELSE t0
    /\ late' = IF c.pc = "recv" THEN FALSE ELSE l

\* busy_wait!: rx.read() yields the next byte of the bus.
RxReady ==
    /\ pc = "recv"
    /\ rxpos < Len(script)
    /\ rxpos' = rxpos + 1
    /\ LET bs == Append(bytes, script[rxpos + 1])
           r == recv_step(bs)
       IN  IF r.tag = "More"
           THEN /\ bytes' = bs
                /\ t0' = busy_wait_t0(now, t0)
                /\ late' = (late \/ now - t0 > timeout)
                /\ UNCHANGED <<pc, txq, idx, answer, rres, result, hist>>
           ELSE RecvReturns(r, Len(bs), late \/ now - t0 > timeout)
    /\ UNCHANGED <<op, timeout, now, tx, script, calls>>

\* busy_wait!: rx.read() is not ready and the deadline has passed.
RxTimeout ==
    /\ pc = "recv"
    /\ busy_wait_expired(now, t0, timeout)
    /\ RecvReturns(timeout_error, Len(bytes), late)
    /\ UNCHANGED <<op, timeout, now, tx, script, rxpos, calls>>

\* The clock advances by a millisecond during a wait (only busy_wait! reads
\* the clock).
Tick(maxTime) ==
    /\ pc = "recv"
    /\ now < maxTime
    /\ now' = now + 1
    /\ UNCHANGED <<pc, op, timeout, t0, txq, tx, script, rxpos, bytes, idx,
                   answer, rres, result, hist, late, calls>>

\* the controller flushing rx when an operation returns
Return_drain ==
    /\ pc = "done"
    /\ Len(calls) < MaxCalls
    /\ pc' = "idle"
    /\ op' = NoOp
    /\ rxpos' = Len(script)
    /\ tx' = <<>> /\ txq' = <<>> /\ bytes' = <<>>
    /\ idx' = 0 /\ answer' = <<>>
    /\ rres' = NoResult /\ result' = NoResult
    /\ hist' = <<>> /\ late' = FALSE
    /\ UNCHANGED <<timeout, now, t0, script, calls>>

\* The operation has returned and the caller is free to call the next one
\* on the same controller: rx, the clock and the timeout are as the
\* operation left them, the locals and the histories of the operation go.
Return ==
    /\ pc = "done"
    /\ Len(calls) < MaxCalls
    /\ pc' = "idle"
    /\ op' = NoOp
    /\ tx' = <<>> /\ txq' = <<>> /\ bytes' = <<>>
    /\ idx' = 0 /\ answer' = <<>>
    /\ rres' = NoResult /\ result' = NoResult
    /\ hist' = <<>> /\ late' = FALSE
    /\ UNCHANGED <<timeout, now, t0, script, rxpos, calls>>

\* The bytes of the test parse_status_packet.
ParseStatusPacketBytes == HEADER \o <<42, 6, 0, StatusMarker, 0, 0, 23, 4, 242>>

\* The start of one run of the codec: the test parse_random_status_packet
\* with the packet random_status_packet() returned, the test status_error
\* with the byte random() returned, the test parse_status_packet, or
\* to_bytes and from_bytes applied in turn to a value of StatusPacket.
InitCodec ==
    /\ pc = "packet"
    /\ op \in { [kind |-> "parse_random_status_packet", packet |-> sp] :
                   sp \in random_status_packet }
             \cup { [kind |-> "status_error", error |-> e] : e \in 0 .. 255 }
             \cup { [kind |-> "parse_status_packet"] }
             \cup { [kind |-> "to_bytes", packet |-> sp] :
                       sp \in StatusPackets }
    /\ timeout = TIMEOUT
    /\ now = 0
    /\ t0 = 0
    /\ txq = <<>>
    /\ tx = <<>>
    /\ script = <<>>
    /\ rxpos = 0
    /\ bytes = <<>>
    /\ idx = 0
    /\ answer = <<>>
    /\ rres = NoResult
    /\ result = NoResult
    /\ hist = <<>>
    /\ late = FALSE
    /\ calls = <<>>

\* parse_random_status_packet: rp.error_code = None
TestClearError ==
    /\ pc = "packet"
    /\ op.kind = "parse_random_status_packet"
    /\ op' = [op EXCEPT !.packet.error_code = None]
    /\ pc' = "cleared"
    /\ UNCHANGED <<timeout, now, t0, txq, tx, script, rxpos, bytes, idx,
                   answer, rres, result, hist, late, calls>>

\* parse_random_status_packet: let bytes = rp.to_bytes()
TestToBytes ==
    /\ pc = "cleared"
    /\ op.kind = "parse_random_status_packet"
    /\ script' = to_bytes(op.packet)
    /\ pc' = "bytes"
    /\ UNCHANGED <<op, timeout, now, t0, txq, tx, rxpos, bytes, idx, answer,
                   rres, result, hist, late, calls>>

\* status_error: the error byte, 1 when 0 was drawn, in a frame of id 42
\* with the parameters 0 and 23, followed by the CRC of the frame.
TestStatusErrorBytes ==
    /\ pc = "packet"
    /\ op.kind = "status_error"
    /\ LET error == IF op.error = 0 THEN 1 ELSE op.error
           bs == HEADER \o <<42, 6, 0, StatusMarker, error, 0, 23>>
       IN  /\ op' = [op EXCEPT !.error = error]
           /\ script' = bs \o unpack(crc(bs))
    /\ pc' = "bytes"
    /\ UNCHANGED <<timeout, now, t0, txq, tx, rxpos, bytes, idx, answer,
                   rres, result, hist, late, calls>>

\* parse_status_packet: let bytes = [...]
TestStatusPacketBytes ==
    /\ pc = "packet"
    /\ op.kind = "parse_status_packet"
    /\ script' = ParseStatusPacketBytes
    /\ pc' = "bytes"
    /\ UNCHANGED <<op, timeout, now, t0, txq, tx, rxpos, bytes, idx, answer,
                   rres, result, hist, late, calls>>

\* StatusPacket::to_bytes applied to a value of StatusPacket as it is.
ToBytes ==
    /\ pc = "packet"
    /\ op.kind = "to_bytes"
    /\ script' = to_bytes(op.packet)
    /\ pc' = "bytes"
    /\ UNCHANGED <<op, timeout, now, t0, txq, tx, rxpos, bytes, idx, answer,
                   rres, result, hist, late, calls>>

\* StatusPacket::from_bytes(&bytes), in each of the tests and after ToBytes
TestFromBytes ==
    /\ pc = "bytes"
    /\ rres' = StatusPacket_from_bytes(script)
    /\ pc' = "parsed"
    /\ UNCHANGED <<op, timeout, now, t0, txq, tx, script, rxpos, bytes, idx,
                   answer, result, hist, late, calls>>

Step(maxTime) ==
    \/ \E id \in Ids : Ping(id)
    \/ \E rg \in Ranges : Scan(rg[1], rg[2])
    \/ \E id \in Ids, reg \in Regs : ReadData(id, reg)
    \/ \E ids \in IdLists, reg \in Regs : SyncReadData(ids, reg)
    \/ \E id \in Ids, reg \in Regs, data \in Datas : WriteData(id, reg, data)
    \/ \E reg \in Regs, pairs \in PairLists : SyncWriteData(reg, pairs)
    \/ TxWrite
    \/ RxReady
    \/ RxTimeout
    \/ Tick(maxTime)

Next == Step(MaxTime)

NextSlow == Step(MaxSlowTime)

Spec == Init /\ [][Next]_vars

SpecSlow == InitSlow /\ [][NextSlow]_vars

\* Sequences of ping, read_data and write_data on one controller.
NextSeq ==
    \/ Ping(1)
    \/ ReadData(1, PresentPosition)
    \/ WriteData(1, GoalPosition, 612)
    \/ TxWrite
    \/ RxReady
    \/ RxTimeout
    \/ Tick(MaxTime)
    \/ Return

SpecSeq == InitSeq /\ [][NextSeq]_vars

\* One operation under a clock that keeps advancing while a deadline is
\* open, a tx that accepts every byte in the end and a controller that goes
\* on running; rx is free to yield its next byte or not.
NextLive ==
    \/ Ping(1)
    \/ Scan(1, 3)
    \/ ReadData(1, PresentPosition)
    \/ SyncReadData(<<1, 2>>, PresentPosition)
    \/ WriteData(1, GoalPosition, 612)
    \/ TxWrite
    \/ RxReady
    \/ RxTimeout
    \/ Tick(t0 + timeout + 1)

SpecLive ==
    /\ InitLive
    /\ [][NextLive]_vars
    /\ WF_vars(TxWrite)
    /\ WF_vars(Tick(t0 + timeout + 1))
    /\ WF_vars(RxTimeout)

\* The codec of status packets on its own.
NextCodec ==
    \/ TestClearError
    \/ TestToBytes
    \/ TestStatusErrorBytes
    \/ TestStatusPacketBytes
    \/ ToBytes
    \/ TestFromBytes

SpecCodec == InitCodec /\ [][NextCodec]_vars

-----------------------------------------------------------------------------
(* Properties.                                                             *)

IsErr(r, e) == r.tag = "Err" /\ r.error = e

\* The ids of the pairs of a sync_read_data answer.
AnswerIds(ans) == [k \in 1 .. Len(ans) |-> ans[k][1]]

RECURSIVE Received(_, _, _)
\* ids[1..n] without the ids whose recv, as recorded in h, did not return Ok
Received(ids, h, n) ==
    IF n = 0 THEN <<>>
    ELSE Received(ids, h, n - 1)
            \o (IF h[n].tag = "Ok" THEN <<ids[n]>> ELSE <<>>)

\* C1: when ping returns, it has made one recv, and its result is Ok(true)
\* if recv returned a status packet, Ok(false) exactly if recv failed with
\* Timeout, any other error of recv unchanged, and never a Timeout error.
C1_PingMapsRecv ==
    (op.kind = "ping" /\ pc = "done") =>
        /\ Len(hist) = 1
        /\ hist[1].tag = rres.tag
        /\ rres.tag = "Ok" => (result.tag = "Ok" /\ result.val = TRUE)
        /\ (result.tag = "Ok" /\ result.val = FALSE) <=> IsErr(rres, "Timeout")
        /\ (rres.tag = "Err" /\ rres.error # "Timeout") =>
              (result.tag = "Err" /\ result.error = rres.error
                  /\ result.code = rres.code)
        /\ ~IsErr(result, "Timeout")

\* ping returned Ok(false) after a Timeout between two bytes of a reply.
C1_Witness ==
    /\ op.kind = "ping" /\ pc = "done"
    /\ result.tag = "Ok" /\ result.val = FALSE
    /\ hist[1].n > 0

\* C2: when the whole of a well-formed status frame with error byte e # 0
\* has been received, ping, read_data and write_data return StatusError(e).
C2_StatusErrorSurfaced ==
    \A e \in ErrBytes :
        (/\ op.kind \in {"ping", "read_data", "write_data"}
         /\ pc \in {"done", "panic"}
         /\ Len(hist) = 1 /\ hist[1].n = rxpos
         /\ rxpos = Len(script)
         /\ script = Reply(1, e, ServoData(1, 2)))
        => (pc = "done" /\ IsErr(result, "StatusError") /\ result.code = e)

\* read_data returned StatusError(128) on the reply with error byte 128.
C2_Witness ==
    /\ op.kind = "read_data" /\ pc = "done"
    /\ IsErr(result, "StatusError") /\ result.code = 128
    /\ script = Reply(1, 128, ServoData(1, 2))

\* C3: sync_read_data makes its recv attempts one per id in ids order; a
\* failed attempt drops its id and never ends the operation; the answer
\* holds, in order, exactly the ids whose attempt succeeded; the list that
\* is returned was built from one attempt per id.
C3_SyncReadDropsFailures ==
    op.kind = "sync_read_data" =>
        /\ idx = Len(hist) /\ Len(hist) <= Len(op.ids)
        /\ pc = "panic" => (hist = <<>> \/ hist[Len(hist)].tag # "Err")
        /\ pc # "panic" =>
              AnswerIds(answer) = Received(op.ids, hist, Len(hist))
        /\ pc = "done" =>
              /\ Len(hist) = Len(op.ids)
              /\ result.tag = "Ok" /\ result.val = answer
              /\ Len(answer) <= Len(op.ids)

\* sync_read_data of three ids returned two pairs: the second attempt
\* failed with a StatusError and the third succeeded.
C3_Witness ==
    /\ op.kind = "sync_read_data" /\ pc = "done"
    /\ Len(op.ids) = 3 /\ Len(hist) = 3
    /\ IsErr(hist[2], "StatusError") /\ hist[3].tag = "Ok"
    /\ AnswerIds(answer) = <<1, 3>>

\* The bus carries the well-formed replies of every servo but i, ids lists
\* every servo in bus order, and the register has the width of the replies.
OneSilent(i) ==
    /\ op.kind = "sync_read_data"
    /\ pc = "done"
    /\ op.ids = AllIds
    /\ op.width = 2
    /\ script = Replies(Ids \ {i}, 1)

\* The pairs of every servo but i, each with its own servo's value.
OwnPairs(i) ==
    LET others == SelectSeq(AllIds, LAMBDA x : x # i)
    IN  [k \in 1 .. Len(others) |-> <<others[k], ServoValue(others[k])>>]

\* C4 as stated: with one silent servo, every returned pair carries the
\* value of the reply of the servo with the same id.
C4_PairsOwnValue ==
    \A i \in Ids :
        OneSilent(i) =>
            \A k \in 1 .. Len(answer) :
                answer[k][2] = ServoValue(answer[k][1])

\* C4 amended: with one silent servo whose attempt times out before any
\* byte is read, and no Timeout in the attempts of the other ids, the
\* answer is the list of the other ids, each with its own servo's value.
C4_PairsOwnValueAfterTimeout ==
    \A i \in Ids :
        (/\ OneSilent(i)
         /\ IsErr(hist[i], "Timeout") /\ hist[i].n = 0
         /\ \A j \in Ids \ {i} : ~IsErr(hist[j], "Timeout"))
        => answer = OwnPairs(i)

\* ids = [1, 2, 3], servo 2 silent: the answer is [(1, v1), (3, v3)].
C4_Witness ==
    /\ OneSilent(2)
    /\ IsErr(hist[2], "Timeout")
    /\ answer = << <<1, ServoValue(1)>>, <<3, ServoValue(3)>> >>

\* C5: when read_data has received a status packet, it returns Parsing if
\* the number of parameters is not the width of the register, parameters[0]
\* for width 1 and parameters[0] | parameters[1] << 8 for width 2; the
\* parameters [0x64, 0x02] give 612.
C5_ReadDecodes ==
    (op.kind = "read_data" /\ pc = "done" /\ rres.tag = "Ok") =>
        LET ps == rres.val.parameters IN
        /\ ps = SubSeq(script, 10, rxpos - 2)
        /\ Len(ps) # op.width => IsErr(result, "Parsing")
        /\ (Len(ps) = op.width /\ op.width = 1) =>
              (result.tag = "Ok" /\ result.val = ps[1])
        /\ (Len(ps) = op.width /\ op.width = 2) =>
              (result.tag = "Ok" /\ result.val = ps[1] + 256 * ps[2])
        /\ (ps = <<100, 2>> /\ op.width = 2) => result.val = 612

\* read_data of a register of width 2 returned 612.
C5_Witness ==
    /\ op.kind = "read_data" /\ pc = "done" /\ op.width = 2
    /\ rres.tag = "Ok" /\ rres.val.parameters = <<100, 2>>
    /\ result.tag = "Ok" /\ result.val = 612

\* C6 as stated: read_data and write_data on a register whose width is not
\* 1 or 2 return UnsupportedRegister with nothing written to tx and nothing
\* read from rx.
C6_UnsupportedRegister ==
    (op.kind \in {"read_data", "write_data"} /\ op.width \notin {1, 2}) =>
        /\ pc = "done"
        /\ IsErr(result, "UnsupportedRegister")
        /\ tx = <<>> /\ txq = <<>>
        /\ rxpos = 0

\* C7: sync_write_data writes its one broadcast frame to tx and returns;
\* it never enters recv and reads no byte of rx, whatever the bus holds.
C7_SyncWriteSilent ==
    op.kind = "sync_write_data" =>
        /\ pc # "recv"
        /\ rxpos = 0 /\ bytes = <<>> /\ hist = <<>>
        /\ pc \in {"send", "done"} =>
              LET p == InstructionPacket_sync_write_data(op.addr, op.width,
                                                         op.pairs).val
              IN  p.id = BROADCAST_ID /\ tx \o txq = as_bytes(p)
        /\ pc = "done" => (txq = <<>> /\ result.tag = "Ok")

\* sync_write_data of two pairs has returned while replies are pending on
\* the bus.
C7_Witness ==
    /\ op.kind = "sync_write_data" /\ pc = "done"
    /\ Len(op.pairs) = 2 /\ Len(tx) > 0
    /\ Len(script) > 0 /\ rxpos = 0

\* C8: the deadline is restarted for each byte: every byte that recv takes
\* and that leaves it waiting for a further byte sets t0 to the clock's
\* value at that moment.
C8_DeadlinePerByte ==
    [][(pc = "recv" /\ pc' = "recv" /\ rxpos' = rxpos + 1) => t0' = now']_vars

\* ping has received a whole reply, every byte within the deadline of its
\* own wait, over a time of at least ten timeouts.
C8_Witness ==
    /\ op.kind = "ping" /\ pc = "done"
    /\ result.tag = "Ok" /\ result.val = TRUE
    /\ ~late
    /\ now >= 10 * timeout

\* C9 as stated: a wait whose rx.read() is not ready more than timeout ms
\* after it began fails with Timeout, and no byte is taken more than
\* timeout ms after its wait began.
C9_NoByteAfterDeadline ==
    /\ (pc = "recv" /\ now - t0 > timeout) =>
          busy_wait_expired(now, t0, timeout)
    /\ ~late

\* C9 amended: a wait whose rx.read() is not ready more than timeout ms
\* after it began fails with Timeout; recv fails with Timeout at no other
\* moment, and reads no byte when it does. (A byte that is ready is taken
\* whatever time has passed: rx.read() is tried before the deadline.)
C9_TimeoutAfterDeadline ==
    /\ [][(Len(hist') = Len(hist) + 1 /\ IsErr(hist'[Len(hist')], "Timeout"))
             => (pc = "recv" /\ now - t0 > timeout /\ rxpos' = rxpos)]_vars
    /\ []((pc = "recv" /\ now - t0 > timeout) =>
             busy_wait_expired(now, t0, timeout))

\* recv failed with Timeout while waiting for a byte of the body.
C9_Witness ==
    /\ Len(hist) > 0
    /\ IsErr(hist[Len(hist)], "Timeout")
    /\ hist[Len(hist)].n >= HeaderLength

RECURSIVE PingFrames(_, _)
\* the frames of the pings of ids[1..k], back to back
PingFrames(ids, k) ==
    IF k = 0 THEN <<>>
    ELSE PingFrames(ids, k - 1) \o PingFrame[ids[k]]

\* C10: scan pings the ids of its range in ascending order, each once the
\* ping before it has returned; v holds, in order, the ids whose ping
\* returned true; a ping that returns an error ends the scan with that
\* error and no further ping; otherwise every id is pinged and v returned.
C10_ScanAbortsOnError ==
    op.kind = "scan" =>
        LET n == Len(hist)
            started == n + (IF pc \in {"send", "recv"} THEN 1 ELSE 0)
            failed == n > 0 /\ hist[n].tag = "Err"
                        /\ hist[n].error # "Timeout"
        IN  /\ idx = n /\ started <= Len(op.ids)
            /\ \A j \in 1 .. Len(op.ids) - 1 : op.ids[j + 1] = op.ids[j] + 1
            /\ tx \o txq = PingFrames(op.ids, started)
            /\ \A j \in 1 .. n - 1 :
                  hist[j].tag = "Ok" \/ IsErr(hist[j], "Timeout")
            /\ pc # "panic" => answer = Received(op.ids, hist, n)
            /\ failed =>
                  /\ pc = "done"
                  /\ IsErr(result, hist[n].error)
                  /\ result.code = hist[n].code
            /\ (pc = "done" /\ ~failed) =>
                  /\ n = Len(op.ids)
                  /\ result.tag = "Ok" /\ result.val = answer

\* scan of three ids found servo 1 and was ended by the StatusError of the
\* ping of id 2: id 3 was not pinged.
C10_Witness ==
    /\ op.kind = "scan" /\ pc = "done"
    /\ Len(op.ids) = 3 /\ Len(hist) = 2
    /\ IsErr(result, "StatusError")
    /\ answer = <<1>>
    /\ tx = PingFrames(op.ids, 2)

\* C11 as stated: the controller that new() builds holds a timeout of
\* 10 ms, and the deadline test of every wait of recv is made against 10 ms.
C11_DefaultTimeoutTen ==
    /\ timeout = 10
    /\ pc = "recv" =>
          (busy_wait_expired(now, t0, timeout) <=> (now - t0 > 10))

\* rxpos at the call of the operation in flight
CallRxpos == calls[Len(calls)]

\* The operations that send one frame and then wait for replies.
RequestOps ==
    { MkOp("ping", id, NoReg, 0, <<>>, <<>>) : id \in Ids }
    \cup { MkOp("read_data", id, reg, 0, <<>>, <<>>) : id \in Ids, reg \in Regs }
    \cup { MkOp("write_data", id, reg, d, <<>>, <<>>) :
              id \in Ids, reg \in Regs, d \in Datas }
    \cup { MkOp("sync_read_data", 0, reg, 0, ids, <<>>) :
              ids \in IdLists, reg \in Regs }

\* The encoded instruction frame of each of them (empty when building the
\* packet aborts).
RequestFrame ==
    [o \in RequestOps |->
        LET reg == [addr |-> o.addr, width |-> o.width]
            pkt == CASE o.kind = "ping" -> Ok(InstructionPacket_ping(o.id))
                     [] o.kind = "read_data" ->
                          Ok(InstructionPacket_read_data(o.id, o.addr, o.width))
                     [] o.kind = "write_data" ->
                          InstructionPacket_write_data(o.id, o.addr, o.width,
                                                       o.data)
                     [] OTHER ->
                          Ok(InstructionPacket_sync_read_data(o.ids, o.addr,
                                                              o.width))
        IN  IF pkt.tag = "Ok" THEN as_bytes(pkt.val) ELSE <<>>]

\* C12: in ping, read_data, write_data and sync_read_data the bytes written
\* to tx are the bytes of the encoded instruction frame in frame order;
\* while a byte of the frame is still to be written nothing has been read
\* from rx, and every read of rx finds the whole frame written.
C12_SendBeforeRecv ==
    /\ [](op \in RequestOps =>
            /\ tx \o txq = RequestFrame[op]
            /\ txq # <<>> =>
                  (pc = "send" /\ rxpos = CallRxpos /\ bytes = <<>>
                      /\ hist = <<>>))
    /\ [][(op \in RequestOps /\ rxpos' # rxpos) =>
            (pc = "recv" /\ txq = <<>> /\ tx = RequestFrame[op] /\ tx' = tx)]_vars

\* sync_read_data has written its frame of 17 bytes and is reading the
\* second reply.
C12_Witness ==
    /\ op.kind = "sync_read_data" /\ pc = "recv"
    /\ Len(op.ids) = 3 /\ Len(tx) = 17 /\ txq = <<>>
    /\ Len(hist) = 1 /\ Len(bytes) > 0

\* C13: when the recv of ping, read_data or write_data fails, the operation
\* has returned with that failure (ping with Ok(false) for a Timeout) after
\* this one recv, and rx has yielded to it exactly the bytes that recv
\* took: 7 for a wrong magic, the k - 1 bytes in the buffer for a Timeout
\* at byte k. No byte is read between operations, and the recv of the next
\* operation starts at the first byte the failed one left.
C13_NoDrainAfterFailure ==
    /\ []((op.kind \in {"ping", "read_data", "write_data"}
             /\ hist # <<>> /\ hist[1].tag = "Err") =>
            /\ pc = "done" /\ Len(hist) = 1
            /\ result = IF op.kind = "ping" /\ IsErr(hist[1], "Timeout")
                        THEN Ok(FALSE)
                        ELSE Err(hist[1].error, hist[1].code)
            /\ rxpos = CallRxpos + hist[1].n
            /\ IsErr(hist[1], "Parsing") =>
                  (hist[1].n = HeaderLength
                     /\ SubSeq(script, CallRxpos + 1, CallRxpos + 4) # HEADER))
    /\ [](pc = "recv" => bytes = SubSeq(script, CallRxpos + 1, rxpos))
    /\ [][(Len(hist') = 1 /\ hist = <<>> /\ IsErr(hist'[1], "Timeout")) =>
            (hist'[1].n = Len(bytes) /\ rxpos' = rxpos /\ pc' = "done")]_vars
    /\ [][(pc \in {"idle", "done"}) => rxpos' = rxpos]_vars
    /\ [][calls' # calls => calls' = Append(calls, rxpos)]_vars

\* The first operation failed on a wrong magic after 7 bytes; read_data,
\* called next, took the 6 bytes left of that frame and the first byte of
\* the reply behind it for its header.
C13_Witness ==
    /\ Len(calls) = 2 /\ calls[2] = HeaderLength
    /\ op.kind = "read_data" /\ pc = "done"
    /\ IsErr(result, "Parsing")
    /\ rxpos = 2 * HeaderLength
    /\ script[1] # 255

\* C14 as stated: a recv that has taken the 7 + LEN bytes of a frame whose
\* magic is valid and whose declared length LEN is smaller than 4 ends with
\* the error Parsing; it neither aborts nor returns a packet.
C14_ShortFrameIsParsing ==
    (/\ Len(calls) = 1 /\ pc # "recv"
     /\ Len(script) >= HeaderLength
     /\ SubSeq(script, 1, 4) = HEADER
     /\ pack(script[6], script[7]) < 4
     /\ rxpos = HeaderLength + pack(script[6], script[7]))
    => (pc = "done" /\ Len(hist) = 1 /\ IsErr(hist[1], "Parsing"))

\* C15 as stated: a recv that has taken the whole of a frame whose magic,
\* length and CRC are valid and whose marker byte is not 0x55 ends with the
\* error Parsing and returns no packet.
C15_BadMarkerIsParsing ==
    (/\ Len(calls) = 1 /\ script = BadMarker
     /\ hist # <<>> /\ hist[1].n = Len(script))
    => IsErr(hist[1], "Parsing")

\* The id, length, error and parameters that were serialized into script.
Serialized ==
    CASE op.kind \in {"parse_random_status_packet", "to_bytes"} -> op.packet
      [] op.kind = "status_error" ->
           [id |-> 42, length |-> 6, error_code |-> Some(op.error),
            parameters |-> <<0, 23>>]
      [] op.kind = "parse_status_packet" ->
           [id |-> 42, length |-> 6, error_code |-> None,
            parameters |-> <<0, 23>>]

\* C16: decoding the serialization of a status packet whose length is the
\* number of its parameters plus 4 yields the same id, the same length and
\* the same parameters, and an error_code that is absent when the error
\* byte of the frame is 0 and is that byte otherwise.
C16_StatusRoundTrip ==
    pc = "parsed" =>
        /\ rres.tag = "Ok"
        /\ rres.val.id = Serialized.id
        /\ rres.val.length = Serialized.length
        /\ rres.val.length = Len(Serialized.parameters) + 4
        /\ rres.val.parameters = Serialized.parameters
        /\ Len(script) = 7 + rres.val.length
        /\ script[9] = 0 => rres.val.error_code = None
        /\ script[9] # 0 => rres.val.error_code = Some(script[9])
        /\ script[9] = unwrap_or(Serialized.error_code, 0)
        /\ op.kind = "parse_random_status_packet"
              => rres.val.error_code = None
        /\ op.kind = "status_error"
              => op.error # 0 /\ rres.val.error_code = Some(op.error)

\* A packet with 255 parameters (length 259, high byte 1) and the error
\* byte 128 has been serialized by to_bytes and decoded.
C16_Witness ==
    /\ pc = "parsed"
    /\ op.kind = "to_bytes"
    /\ rres.tag = "Ok"
    /\ Len(rres.val.parameters) = 255
    /\ rres.val.length = 259
    /\ rres.val.error_code = Some(128)

RECURSIVE FramesIn(_, _)
\* The number of frames in bs from index i on, each taken to be as long as
\* its header declares.
FramesIn(bs, i) ==
    IF i > Len(bs) THEN 0
    ELSE IF i + 6 > Len(bs) \/ SubSeq(bs, i, i + 3) # HEADER THEN 1000
    ELSE 1 + FramesIn(bs, i + HeaderLength + pack(bs[i + 5], bs[i + 6]))

\* C17: an operation transmits one instruction frame (scan one per id it
\* has reached, an operation that aborts while building its packet none)
\* and starts at most one recv per reply it expects: one for ping,
\* read_data and write_data, one per id for sync_read_data, none for
\* sync_write_data, one per ping for scan. Whatever a recv returned, the
\* operation writes nothing to tx after it, except scan going on to the
\* next id after a ping that did not fail.
C17_NoRetry ==
    /\ [](op.kind # "none" =>
            LET sent == FramesIn(tx \o txq, 1)
                recvs == Len(hist) + (IF pc = "recv" THEN 1 ELSE 0)
            IN  /\ op.kind \in {"ping", "read_data", "write_data"} =>
                      /\ sent = (IF pc = "panic" /\ hist = <<>> THEN 0 ELSE 1)
                      /\ recvs <= 1
                      /\ pc = "done" => recvs = 1
                /\ op.kind = "sync_read_data" =>
                      (sent = 1 /\ recvs <= Len(op.ids))
                /\ op.kind = "sync_write_data" =>
                      (sent = (IF pc = "panic" THEN 0 ELSE 1) /\ recvs = 0)
                /\ op.kind = "scan" =>
                      /\ sent = recvs + (IF pc = "send" THEN 1 ELSE 0)
                      /\ sent <= Len(op.ids)
                      /\ \A k \in 1 .. Len(hist) - 1 :
                            hist[k].tag = "Ok" \/ IsErr(hist[k], "Timeout"))
    /\ [][(tx' # tx /\ hist # <<>>) =>
            (/\ op.kind = "scan"
             /\ hist[Len(hist)].tag = "Ok" \/ IsErr(hist[Len(hist)], "Timeout")
             /\ Len(hist) < Len(op.ids))]_vars

\* read_data has returned the InvalidChecksum of its recv, having sent one
\* frame and made one recv.
C17_Witness ==
    /\ op.kind = "read_data" /\ pc = "done"
    /\ IsErr(result, "InvalidChecksum")
    /\ FramesIn(tx, 1) = 1 /\ Len(hist) = 1 /\ txq = <<>>

RECURSIVE Consumed(_, _)
\* The number of bytes the first k recvs recorded in h took from rx.
Consumed(h, k) == IF k = 0 THEN 0 ELSE Consumed(h, k - 1) + h[k].n

\* C18: the bytes rx has yielded to an operation are those its recvs took,
\* one recv after the other without a gap; a recv that returned a status
\* packet took exactly 7 + LEN bytes, LEN being the little-endian length in
\* bytes 5 and 6 of the header it read, and the recv after it starts at the
\* byte that follows.
C18_ExactConsumption ==
    op.kind # "none" =>
        /\ rxpos = CallRxpos + Consumed(hist, Len(hist)) + Len(bytes)
        /\ pc = "recv" =>
              bytes = SubSeq(script, CallRxpos + Consumed(hist, Len(hist)) + 1,
                             rxpos)
        /\ \A k \in 1 .. Len(hist) :
              hist[k].tag = "Ok" =>
                  LET s == CallRxpos + Consumed(hist, k - 1) IN
                  /\ SubSeq(script, s + 1, s + 4) = HEADER
                  /\ hist[k].n = 7 + script[s + 6] + 256 * script[s + 7]

\* sync_read_data has received three replies of 13 bytes back to back.
C18_Witness ==
    /\ op.kind = "sync_read_data" /\ pc = "done"
    /\ Len(hist) = 3
    /\ \A k \in 1 .. 3 : hist[k].tag = "Ok" /\ hist[k].n = 13
    /\ rxpos = 39

\* C19 as stated: sync_read_data on a register of width 1 or 2 never
\* aborts, and a reply that recv returned with a number of parameters other
\* than the width of the register adds no pair to the answer.
C19_SyncReadAlwaysReturns ==
    (op.kind = "sync_read_data" /\ op.width \in {1, 2}) =>
        /\ pc # "panic"
        /\ (hist # <<>> /\ rres.tag = "Ok"
               /\ Len(rres.val.parameters) # op.width) =>
              (answer = <<>>
                 \/ answer[Len(answer)][1] # op.ids[Len(hist)])

\* C20 as stated: an operation that has been called and has begun to send
\* eventually returns to its caller.
C20_EveryOperationReturns == (pc \in {"send", "recv"}) ~> (pc = "done")

\* What holds instead: such an operation eventually returns or aborts.
ReturnsOrAborts == (pc \in {"send", "recv"}) ~> (pc \in {"done", "panic"})

====
